---------------------------- MODULE Spec2Model ----------------------------
(***************************************************************************)
(* A model of libweif's value objects: uniform_grid, spectral_response,    *)
(* detail::cubic_spline, the weight function with its integrand, the       *)
(* aperture filters, the polychromatic spectral filter sf::poly, the FFT   *)
(* plans and the grid of apertures that owns one, stack_from_files and the *)
(* exit status of the command-line programs.                               *)
(*                                                                         *)
(* Numbers.  The library computes in float/double.  The model computes in  *)
(* exact extended rationals: a number is a pair <<n, d>> in lowest terms   *)
(* with d > 0, and the three IEEE specials are <<1,0>> (+inf), <<-1,0>>    *)
(* (-inf) and <<0,0>> (NaN).  Rounding is not modelled; signed zero is not *)
(* modelled (x/0 takes the sign of x).                                     *)
(*                                                                         *)
(* Undefined behaviour (a float -> size_t cast whose truncated value is    *)
(* not representable, a read past the end of a tensor) is a choice over a  *)
(* set of outcomes.                                                        *)
(***************************************************************************)
EXTENDS Integers, Sequences, FiniteSets, TLC

VARIABLES pc, a, b, out, values_, d2_

vars == <<pc, a, b, out, values_, d2_>>

---------------------------------------------------------------------------
(* Bounds of the model.                                                    *)

\* grid sizes range over 0..MaxSize
MaxSize == 3
\* the iterables a grid is built from have 0..MaxIter elements
MaxIter == 4
\* origins, iterable elements and probed values are k/2 for k \in -MaxNum..MaxNum
MaxNum == 3
\* splines have 2..MaxKnots knots
MaxKnots == 3
\* knot values range over 0..MaxY
MaxY == 2

\* the requested sizes of a Poly filter range over 0..MaxPolySize
MaxPolySize == 3
\* the responses of a chain have 0..MaxRSize grid points and values
MaxRSize == 2
\* a chain of normalize and stack calls has at most MaxOps calls
MaxOps == 2
\* at most MaxPlans wrappers are constructed, each planning one FFTW plan
MaxPlans == 2
\* the executions of a plan are counted up to MaxExec
MaxExec == 2
\* stack_from_files is called with 0..MaxFiles file names
MaxFiles == 3

---------------------------------------------------------------------------
(* Extended rational arithmetic (the float operators the sources use).     *)

Abs(n) == IF n < 0 THEN -n ELSE n

Sign(n) == IF n < 0 THEN -1 ELSE IF n > 0 THEN 1 ELSE 0

RECURSIVE GCD(_, _)
GCD(m, n) == IF n = 0 THEN m ELSE GCD(n, m % n)

\* the number n/d, in lowest terms; d = 0 gives an infinity or NaN
Q(n, d) ==
    IF d = 0 THEN <<Sign(n), 0>>
    ELSE LET g == GCD(Abs(n), Abs(d))
             s == Sign(d)
         IN  <<(s * n) \div g, (s * d) \div g>>

Z(n) == <<n, 1>>

NaN == <<0, 0>>
PInf == <<1, 0>>
NInf == <<-1, 0>>

IsNaN(x) == x = NaN
IsInf(x) == x[2] = 0 /\ x[1] # 0
IsFinite(x) == x[2] # 0

Neg(x) == <<-x[1], x[2]>>

Add(x, y) ==
    IF IsNaN(x) \/ IsNaN(y) THEN NaN
    ELSE IF IsInf(x) /\ IsInf(y) THEN (IF x = y THEN x ELSE NaN)
    ELSE IF IsInf(x) THEN x
    ELSE IF IsInf(y) THEN y
    ELSE Q(x[1] * y[2] + y[1] * x[2], x[2] * y[2])

Sub(x, y) == Add(x, Neg(y))

Mul(x, y) == Q(x[1] * y[1], x[2] * y[2])

Inv(x) == IF x[1] < 0 THEN <<-x[2], -x[1]>> ELSE <<x[2], x[1]>>

Div(x, y) == Mul(x, Inv(y))

\* x == y on floats: false when either side is NaN
Eq(x, y) == ~IsNaN(x) /\ ~IsNaN(y) /\ x = y

\* x < y on floats: false when either side is NaN
Lt(x, y) ==
    /\ ~IsNaN(x)
    /\ ~IsNaN(y)
    /\ IF IsInf(x) /\ IsInf(y) THEN x[1] < y[1]
       ELSE x[1] * y[2] < y[1] * x[2]

Le(x, y) == Lt(x, y) \/ Eq(x, y)

\* std::min(x, y): (y < x) ? y : x
Min(x, y) == IF Lt(y, x) THEN y ELSE x

\* the integer part of a finite x, rounded toward zero / toward -infinity
Trunc(x) == IF x[1] >= 0 THEN x[1] \div x[2] ELSE -((-x[1]) \div x[2])
Floor(x) == x[1] \div x[2]

\* fmod(x, y): x - trunc(x/y)*y, with the sign of x; NaN for y = 0 or x infinite
Fmod(x, y) ==
    IF IsNaN(x) \/ IsNaN(y) \/ IsInf(x) \/ y = Z(0) THEN NaN
    ELSE IF IsInf(y) THEN x
    ELSE Sub(x, Mul(Z(Trunc(Div(x, y))), y))

\* the values a size_t garbage result is drawn from
UBSizeT == 0..(MaxSize + 1)

\* static_cast<std::size_t>(x): truncation toward zero when the truncated value
\* is representable, any value otherwise (undefined behaviour)
SizeTCast(x) ==
    IF IsFinite(x) /\ Trunc(x) >= 0 THEN {Trunc(x)} ELSE UBSizeT

\* whether static_cast<std::size_t>(x) is defined
CastDefined(x) == IsFinite(x) /\ Trunc(x) >= 0

---------------------------------------------------------------------------
(* detail::uniform_grid_fn and uniform_grid.                               *)

\* uniform_grid_fn::operator()(ind): origin + ind * delta
GridFn(origin, delta, ind) == Add(origin, Mul(Z(ind), delta))

\* uniform_grid(origin, delta, size): stores its arguments, checks nothing
uniform_grid(origin, delta, size) ==
    [origin |-> origin, delta |-> delta, size |-> size]

\* the i-th value of the grid
value(g, i) == GridFn(g.origin, g.delta, i)

\* *values().crbegin(): the last value of the grid
Last(g) == value(g, g.size - 1)

\* ScanIterable with the bug of reporting the last mismatch instead of the first
ScanIterableLast(origin, delta, s, i) ==
    LET bad == {j \in i..(Len(s) - 1) : ~Eq(GridFn(origin, delta, j), s[j + 1])}
    IN  IF bad = {} THEN [kind |-> "ok", origin |-> origin, delta |-> delta]
        ELSE LET j == CHOOSE j \in bad : \A k \in bad : k <= j
             IN  [kind |-> "throw", what |-> "non_uniform_grid", pos |-> j,
                  actual |-> s[j + 1], expected |-> GridFn(origin, delta, j)]

\* the loop of make_from_iterable over positions i >= 2 of s (s[i+1] in the
\* 1-based sequence): the first mismatch throws
RECURSIVE ScanIterable(_, _, _, _)
ScanIterable(origin, delta, s, i) ==
    IF i >= Len(s) THEN [kind |-> "ok", origin |-> origin, delta |-> delta]
    ELSE IF ~Eq(GridFn(origin, delta, i), s[i + 1])
         THEN [kind |-> "throw", what |-> "non_uniform_grid", pos |-> i,
               actual |-> s[i + 1], expected |-> GridFn(origin, delta, i)]
         ELSE ScanIterable(origin, delta, s, i + 1)

\* uniform_grid_fn::make_from_iterable(begin, end)
make_from_iterable(s) ==
    IF Len(s) = 0 THEN [kind |-> "ok", origin |-> Z(0), delta |-> Z(1)]
    ELSE IF Len(s) = 1 THEN [kind |-> "ok", origin |-> s[1], delta |-> Z(1)]
    ELSE ScanIterable(s[1], Sub(s[2], s[1]), s, 2)

\* uniform_grid(begin, end): the functor of make_from_iterable with
\* size = distance(begin, end); a throw leaves no grid
uniform_grid_iter(s) ==
    LET fn == make_from_iterable(s)
    IN  IF fn.kind = "throw" THEN fn
        ELSE [kind |-> "ok", grid |-> uniform_grid(fn.origin, fn.delta, Len(s))]

\* uniform_grid::match
match(this, other) ==
    /\ Eq(this.delta, other.delta)
    /\ Eq(Fmod(this.origin, this.delta), Fmod(other.origin, other.delta))

\* IntersectOrdered with the bug of testing for an empty result before match()
IntersectOrderedSizeFirst(this, other) ==
    IF \/ this.size = 0
       \/ other.size = 0
       \/ Lt(Last(this), other.origin)
    THEN {[kind |-> "ok", grid |-> uniform_grid(other.origin, other.delta, 0)]}
    ELSE IF ~match(this, other)
         THEN {[kind |-> "throw", what |-> "mismatched_grids"]}
         ELSE {[kind |-> "ok",
                grid |-> uniform_grid(other.origin, other.delta, n + 1)] :
               n \in SizeTCast(Div(Sub(Min(Last(this), Last(other)), other.origin),
                                   other.delta))}

\* IntersectOrdered with the bug of ending at this grid's last value instead of
\* the smaller of the two last values
IntersectOrderedNoMin(this, other) ==
    IF ~match(this, other) THEN {[kind |-> "throw", what |-> "mismatched_grids"]}
    ELSE IF \/ this.size = 0
            \/ other.size = 0
            \/ Lt(Last(this), other.origin)
         THEN {[kind |-> "ok", grid |-> uniform_grid(other.origin, other.delta, 0)]}
         ELSE {[kind |-> "ok",
                grid |-> uniform_grid(other.origin, other.delta, n + 1)] :
               n \in SizeTCast(Div(Sub(Last(this), other.origin), other.delta))}

\* IntersectOrdered with the bug of <= for < in the test for disjoint ranges
IntersectOrderedLe(this, other) ==
    IF ~match(this, other) THEN {[kind |-> "throw", what |-> "mismatched_grids"]}
    ELSE IF \/ this.size = 0
            \/ other.size = 0
            \/ Le(Last(this), other.origin)
         THEN {[kind |-> "ok", grid |-> uniform_grid(other.origin, other.delta, 0)]}
         ELSE {[kind |-> "ok",
                grid |-> uniform_grid(other.origin, other.delta, n + 1)] :
               n \in SizeTCast(Div(Sub(Min(Last(this), Last(other)), other.origin),
                                   other.delta))}

\* uniform_grid::intersect once this.origin <= other.origin: the outcomes
IntersectOrdered(this, other) ==
    IF ~match(this, other) THEN {[kind |-> "throw", what |-> "mismatched_grids"]}
    ELSE IF \/ this.size = 0
            \/ other.size = 0
            \/ Lt(Last(this), other.origin)
         THEN {[kind |-> "ok", grid |-> uniform_grid(other.origin, other.delta, 0)]}
         ELSE {[kind |-> "ok",
                grid |-> uniform_grid(other.origin, other.delta, n + 1)] :
               n \in SizeTCast(Div(Sub(Min(Last(this), Last(other)), other.origin),
                                   other.delta))}

\* intersect with the bug of not swapping the grids when other starts first
intersectNoSwap(this, other) == IntersectOrdered(this, other)

\* uniform_grid::intersect: the outcomes of this.intersect(other)
intersect(this, other) ==
    IF Lt(other.origin, this.origin) THEN IntersectOrdered(other, this)
    ELSE IntersectOrdered(this, other)

\* to_index with the bug of rounding to the nearest grid point
to_index_nearest(g, v) ==
    SizeTCast(Add(Div(Sub(v, g.origin), g.delta), Q(1, 2)))

\* uniform_grid::to_index: the outcomes of to_index(v)
to_index(g, v) == SizeTCast(Div(Sub(v, g.origin), g.delta))

\* uniform_grid::operator*
Multiply(g, x) == uniform_grid(Mul(g.origin, x), Mul(g.delta, x), g.size)

\* uniform_grid::operator/
Divide(g, x) == uniform_grid(Div(g.origin, x), Div(g.delta, x), g.size)

---------------------------------------------------------------------------
(* spectral_response.                                                      *)

\* spectral_response(grid, data): stores its arguments
spectral_response(grid, data) == [grid |-> grid, data |-> data]

\* xt::view(data, xt::range(lo, hi)): the range is clamped to the tensor
View(data, lo, hi) ==
    LET len == Cardinality(DOMAIN data)
        from == IF lo > len THEN len ELSE lo
        to == IF hi > len THEN len ELSE hi
        n == IF to > from THEN to - from ELSE 0
    IN  [k \in 0..(n - 1) |-> data[from + k]]

\* stack with the bug of slicing both value arrays at this grid's index
stackSameIndex(this, other) ==
    UNION {
        IF r.kind = "throw" THEN {[kind |-> "throw", what |-> r.what, self |-> this]}
        ELSE
          { LET view == View(this.data, idx, idx + r.grid.size)
                other_view == View(other.data, idx, idx + r.grid.size)
            IN  IF Cardinality(DOMAIN view) # Cardinality(DOMAIN other_view)
                THEN [kind |-> "assert_failed", self |-> this]
                ELSE [kind |-> "ok",
                      self |-> [grid |-> r.grid,
                                data |-> [k \in DOMAIN view |->
                                             Mul(view[k], other_view[k])]]] :
            idx \in to_index(this.grid, r.grid.origin) } :
        r \in intersect(this.grid, other.grid) }

\* stack that stores the product and keeps the grid it had
stackKeepGrid(this, other) ==
    UNION {
        IF r.kind = "throw" THEN {[kind |-> "throw", what |-> r.what, self |-> this]}
        ELSE
          { LET view == View(this.data, idx, idx + r.grid.size)
                other_view == View(other.data, other_idx, other_idx + r.grid.size)
            IN  IF Cardinality(DOMAIN view) # Cardinality(DOMAIN other_view)
                THEN [kind |-> "assert_failed", self |-> this]
                ELSE [kind |-> "ok",
                      self |-> [grid |-> this.grid,
                                data |-> [k \in DOMAIN view |->
                                             Mul(view[k], other_view[k])]]] :
            idx \in to_index(this.grid, r.grid.origin),
            other_idx \in to_index(other.grid, r.grid.origin) } :
        r \in intersect(this.grid, other.grid) }

\* spectral_response::stack: the outcomes of this.stack(other); self is the
\* object afterwards
stack(this, other) ==
    UNION {
        IF r.kind = "throw" THEN {[kind |-> "throw", what |-> r.what, self |-> this]}
        ELSE
          { LET view == View(this.data, idx, idx + r.grid.size)
                other_view == View(other.data, other_idx, other_idx + r.grid.size)
            IN  IF Cardinality(DOMAIN view) # Cardinality(DOMAIN other_view)
                THEN [kind |-> "assert_failed", self |-> this]
                ELSE [kind |-> "ok",
                      self |-> [grid |-> r.grid,
                                data |-> [k \in DOMAIN view |->
                                             Mul(view[k], other_view[k])]]] :
            idx \in to_index(this.grid, r.grid.origin),
            other_idx \in to_index(other.grid, r.grid.origin) } :
        r \in intersect(this.grid, other.grid) }

---------------------------------------------------------------------------
(* detail::cubic_spline.  Tensors are functions on 0..n-1.                 *)

first_order_boundary(left, right) == [order |-> 1, left |-> left, right |-> right]

second_order_boundary(left, right) == [order |-> 2, left |-> left, right |-> right]

Size(t) == Cardinality(DOMAIN t)

\* the coefficients with the second-order d0 and dn not doubled
BoundaryCoeffsNotDoubled(values, boundary) ==
    LET n == Size(values)
    IN  IF boundary.order = 1
        THEN [first |-> Z(1), last |-> Z(1),
              d0 |-> Mul(Sub(Sub(values[1], values[0]), boundary.left), Z(6)),
              dn |-> Mul(Sub(boundary.right, Sub(values[n - 1], values[n - 2])), Z(6))]
        ELSE [first |-> Z(0), last |-> Z(0),
              d0 |-> boundary.left,
              dn |-> boundary.right]

\* init_d2: the array {first, last, d0, dn} the visitor returns
BoundaryCoeffs(values, boundary) ==
    LET n == Size(values)
    IN  IF boundary.order = 1
        THEN [first |-> Z(1), last |-> Z(1),
              d0 |-> Mul(Sub(Sub(values[1], values[0]), boundary.left), Z(6)),
              dn |-> Mul(Sub(boundary.right, Sub(values[n - 1], values[n - 2])), Z(6))]
        ELSE [first |-> Z(0), last |-> Z(0),
              d0 |-> Mul(boundary.left, Z(2)),
              dn |-> Mul(boundary.right, Z(2))]

\* the second difference with the middle value not doubled
SecondDifferenceNotDoubled(values, j) ==
    Mul(Add(Sub(values[j + 2], values[j + 1]), values[j]), Z(3))

\* init_d2: d(j) = (values(j+2) - 2 values(j+1) + values(j)) * 3
SecondDifference(values, j) ==
    Mul(Add(Sub(values[j + 2], Mul(values[j + 1], Z(2))), values[j]), Z(3))

\* init_d2: the forward sweep from index i, given cprime and d2 on 0..i-1
RECURSIVE ForwardSweep(_, _, _, _)
ForwardSweep(values, cprime, d2, i) ==
    IF i >= Size(values) - 1 THEN [cprime |-> cprime, d2 |-> d2]
    ELSE LET denom == Sub(Z(2), Mul(Q(1, 2), cprime[i - 1]))
         IN  ForwardSweep(values,
                 cprime @@ (i :> Div(Q(1, 2), denom)),
                 d2 @@ (i :> Div(Sub(SecondDifference(values, i - 1),
                                     Mul(Q(1, 2), d2[i - 1])), denom)),
                 i + 1)

\* init_d2: the back substitution from index i down to 1
RECURSIVE BackSubstitution(_, _, _)
BackSubstitution(cprime, d2, i) ==
    IF i = 0 THEN d2
    ELSE BackSubstitution(cprime,
             [d2 EXCEPT ![i - 1] = Sub(d2[i - 1], Mul(cprime[i - 1], d2[i]))],
             i - 1)

\* cubic_spline::init_d2: the second derivatives d2_
init_d2(values, boundary) ==
    LET n == Size(values)
        c == BoundaryCoeffs(values, boundary)
        fw == ForwardSweep(values, (0 :> Div(c.first, Z(2))),
                           (0 :> Div(c.d0, Z(2))), 1)
        right == Div(Sub(c.dn, Mul(c.last, fw.d2[n - 2])),
                     Sub(Z(2), Mul(c.last, fw.cprime[n - 2])))
    IN  BackSubstitution(fw.cprime, fw.d2 @@ ((n - 1) :> right), n - 1)

\* an unchecked read t(i): the element, or what lies past the end of the tensor
ReadAt(t, i, garbage) == IF i \in DOMAIN t THEN t[i] ELSE garbage

\* std::pow(x, 3)
Pow3(x) == Mul(Mul(x, x), x)

\* cubic_spline::operator()(x) with idx the outcome of the cast of x; gv and gd
\* are what a read past the end of values_ and of d2_ returns
SplineAt(values, d2, x, idx, gv, gd) ==
    LET delta0 == Sub(x, Z(idx))
        delta1 == Sub(Z(1), delta0)
        delta03 == Pow3(delta0)
        delta13 == Pow3(delta1)
        d20 == Div(ReadAt(d2, idx, gd), Z(6))
        d21 == Div(ReadAt(d2, idx + 1, gd), Z(6))
        y0 == ReadAt(values, idx, gv)
        y1 == ReadAt(values, idx + 1, gv)
    IN  Add(Add(Add(Mul(d20, delta13), Mul(d21, delta03)),
                Mul(Sub(y0, d20), delta1)),
            Mul(Sub(y1, d21), delta0))

\* whether operator()(x) reads values_ or d2_ outside 0..n-1
ReadsOutOfBounds(values, idx) == idx + 1 >= Size(values)

---------------------------------------------------------------------------
(* Inputs.                                                                 *)

\* the half-integers k/2
Values == {Q(k, 2) : k \in -MaxNum..MaxNum}

\* the steps a caller passes: descending, zero, and two ascending steps
Deltas == {Z(-1), Z(0), Q(1, 2), Z(1)}

\* the scalars of operator* and operator/
Scalars == {Z(-1), Z(0), Q(1, 2), Z(2)}

Iterables == UNION {[1..n -> Values] : n \in 0..MaxIter}

\* the data of the two responses: 2, 3, 4, ... and 7, 9, 11, ...
DataA(n) == [i \in 0..(n - 1) |-> Z(i + 2)]
DataB(n) == [i \in 0..(n - 1) |-> Z(2 * i + 7)]

KnotValues == {Z(k) : k \in 0..MaxY}

\* the squares 0, 1, 4, 9, ... of test_spline11
Squares(n) == [i \in 0..(n - 1) |-> Z(i * i)]

\* the knot values a spline of n knots is built from
KnotSequences(n) == [0..(n - 1) -> KnotValues] \cup {Squares(n)}

Boundaries ==
    {first_order_boundary(l, r) : l \in KnotValues, r \in KnotValues}
    \cup {second_order_boundary(l, r) : l \in KnotValues, r \in KnotValues}

\* what a read past the end of a tensor can return
OOBValues == {Z(0), Z(5), NaN, PInf}

None == [kind |-> "none"]

---------------------------------------------------------------------------
(* The state machine of grids and responses.                               *)
(*   start --ConstructA | FromIterableA--> haveA --ConstructB--> haveAB    *)
(*   haveA --ToIndex | MultiplyA | DivideA--> done                         *)
(*   haveAB --Intersect | Stack--> done                                    *)

Init ==
    /\ pc = "start"
    /\ a = None
    /\ b = None
    /\ out = [op |-> "none"]
    /\ values_ = <<>>
    /\ d2_ = <<>>

\* a response on uniform_grid(origin, delta, size)
ConstructA ==
    /\ pc = "start"
    /\ \E o \in Values, d \in Deltas, n \in 0..MaxSize :
          a' = spectral_response(uniform_grid(o, d, n), DataA(n))
    /\ pc' = "haveA"
    /\ out' = [op |-> "construct"]
    /\ UNCHANGED <<b, values_, d2_>>

\* a response on uniform_grid(begin, end), as make_from_file builds it
FromIterableA ==
    /\ pc = "start"
    /\ \E s \in Iterables :
          LET r == uniform_grid_iter(s)
          IN  IF r.kind = "throw"
              THEN /\ pc' = "failed"
                   /\ a' = a
                   /\ out' = [op |-> "from_iterable", input |-> s, kind |-> "throw",
                              what |-> r.what, pos |-> r.pos, actual |-> r.actual,
                              expected |-> r.expected]
              ELSE /\ pc' = "haveA"
                   /\ a' = spectral_response(r.grid, DataA(Len(s)))
                   /\ out' = [op |-> "from_iterable", input |-> s, kind |-> "ok"]
    /\ UNCHANGED <<b, values_, d2_>>

ConstructB ==
    /\ pc = "haveA"
    /\ \E o \in Values, d \in Deltas, n \in 0..MaxSize :
          b' = spectral_response(uniform_grid(o, d, n), DataB(n))
    /\ pc' = "haveAB"
    /\ out' = [op |-> "construct"]
    /\ UNCHANGED <<a, values_, d2_>>

ToIndex ==
    /\ pc = "haveA"
    /\ \E v \in Values : \E i \in to_index(a.grid, v) :
          out' = [op |-> "to_index", v |-> v, index |-> i]
    /\ pc' = "done"
    /\ UNCHANGED <<a, b, values_, d2_>>

MultiplyA ==
    /\ pc = "haveA"
    /\ \E x \in Scalars :
          out' = [op |-> "multiply", x |-> x, grid |-> Multiply(a.grid, x)]
    /\ pc' = "done"
    /\ UNCHANGED <<a, b, values_, d2_>>

DivideA ==
    /\ pc = "haveA"
    /\ \E x \in Scalars :
          out' = [op |-> "divide", x |-> x, grid |-> Divide(a.grid, x)]
    /\ pc' = "done"
    /\ UNCHANGED <<a, b, values_, d2_>>

Intersect ==
    /\ pc = "haveAB"
    /\ \E r \in intersect(a.grid, b.grid) :
          out' = [op |-> "intersect", res |-> r]
    /\ pc' = "done"
    /\ UNCHANGED <<a, b, values_, d2_>>

Stack ==
    /\ pc = "haveAB"
    /\ \E r \in stack(a, b) :
          /\ a' = r.self
          /\ out' = [op |-> "stack", kind |-> r.kind,
                      what |-> IF r.kind = "throw" THEN r.what ELSE "",
                      pre |-> a]
    /\ pc' = "done"
    /\ UNCHANGED <<b, values_, d2_>>

Next ==
    \/ ConstructA
    \/ FromIterableA
    \/ ConstructB
    \/ ToIndex
    \/ MultiplyA
    \/ DivideA
    \/ Intersect
    \/ Stack

Spec == Init /\ [][Next]_vars

---------------------------------------------------------------------------
(* The state machine of a spline: start --Construct--> spline --Eval-->    *)
(* done.                                                                   *)

\* cubic_spline(e, boundary)
SplineConstruct ==
    /\ pc = "start"
    /\ \E n \in 2..MaxKnots : \E y \in KnotSequences(n) :
       \E boundary \in Boundaries :
          /\ values_' = y
          /\ d2_' = init_d2(y, boundary)
          /\ out' = [op |-> "cubic_spline", boundary |-> boundary]
    /\ pc' = "spline"
    /\ UNCHANGED <<a, b>>

\* operator()(x) at a half-integer x of [0, n-1]
SplineEval ==
    /\ pc = "spline"
    /\ \E k \in 0..(2 * (Size(values_) - 1)) : \E idx \in SizeTCast(Q(k, 2)) :
       \E gv \in OOBValues, gd \in OOBValues :
          out' = [op |-> "eval", boundary |-> out.boundary,
                  x |-> Q(k, 2), idx |-> idx,
                  oob |-> ReadsOutOfBounds(values_, idx),
                  result |-> SplineAt(values_, d2_, Q(k, 2), idx, gv, gd)]
    /\ pc' = "done"
    /\ UNCHANGED <<a, b, values_, d2_>>

NextSpline ==
    \/ SplineConstruct
    \/ SplineEval

SpecSpline == Init /\ [][NextSpline]_vars

---------------------------------------------------------------------------
(* spectral_response::normalize and chains of calls on one response.       *)
(*   start --ResponseConstruct--> resp --Normalize | StackOther--> resp    *)
(*   resp --StackOther (assertion fails)--> aborted                        *)

\* xt::sum(data)(): the sum of the first n values
RECURSIVE SumTo(_, _)
SumTo(data, n) == IF n = 0 THEN Z(0) ELSE Add(SumTo(data, n - 1), data[n - 1])

Sum(data) == SumTo(data, Size(data))

\* normalize dividing by the number of values instead of their sum
normalizeByCount(this) ==
    LET norm == Z(Size(this.data))
    IN  [grid |-> this.grid,
         data |-> [i \in DOMAIN this.data |-> Div(this.data[i], norm)]]

\* spectral_response::normalize: the object afterwards
normalize(this) ==
    LET norm == Sum(this.data)
    IN  [grid |-> this.grid,
         data |-> [i \in DOMAIN this.data |-> Div(this.data[i], norm)]]

\* the origins and the values of the responses of a chain
ROrigins == {Z(0), Q(1, 2), Z(1)}
RValues == {Z(-1), Z(0), Z(1)}

\* the value tensors a caller passes: the constructor takes any length
RData == UNION {[0..(m - 1) -> RValues] : m \in 0..MaxRSize}

\* spectral_response(grid, data) for the response a, which takes any grid and
\* any tensor, and for the response b it is stacked with; out.matching records
\* whether a was given as many values as its grid has points
ResponseConstruct ==
    /\ pc = "start"
    /\ \E o \in ROrigins, d \in Deltas, n \in 0..MaxRSize, data \in RData :
          /\ a' = spectral_response(uniform_grid(o, d, n), data)
          /\ out' = [op |-> "construct", steps |-> 0,
                      matching |-> (Size(data) = n), pre |-> None]
    /\ \E o \in ROrigins, d \in Deltas, n \in 0..MaxRSize :
          b' = spectral_response(uniform_grid(o, d, n), DataB(n))
    /\ pc' = "resp"
    /\ UNCHANGED <<values_, d2_>>

\* a.normalize()
Normalize ==
    /\ pc = "resp"
    /\ out.steps < MaxOps
    /\ a' = normalize(a)
    /\ out' = [op |-> "normalize", steps |-> out.steps + 1,
                matching |-> out.matching, pre |-> a]
    /\ UNCHANGED <<pc, b, values_, d2_>>

\* a.stack(b): an exception leaves a as it was and the caller goes on, a failed
\* assertion ends the program
StackOther ==
    /\ pc = "resp"
    /\ out.steps < MaxOps
    /\ \E r \in stack(a, b) :
          /\ a' = r.self
          /\ out' = [op |-> "stack_" \o r.kind, steps |-> out.steps + 1,
                      matching |-> out.matching, pre |-> a]
          /\ pc' = IF r.kind = "assert_failed" THEN "aborted" ELSE "resp"
    /\ UNCHANGED <<b, values_, d2_>>

NextResponse ==
    \/ ResponseConstruct
    \/ Normalize
    \/ StackOther

SpecResponse == Init /\ [][NextResponse]_vars

---------------------------------------------------------------------------
(* weight_function: detail::weight_function_base and its operator().       *)
(*   start --WeightConstruct--> wf --WeightEval--> done                    *)
(* The knot values of the spline come from the exp-sinh quadrature of the  *)
(* dimensionless weight function; here they are inputs.  The object is     *)
(* held in a (lambda_, aperture_scale_, grid_) and values_, d2_ (wf_).     *)

\* the integer square root and sixth root of a perfect power
ISqrt(n) == CHOOSE r \in 0..n : r * r = n
IRoot6(n) == CHOOSE r \in 0..n : r <= 30 /\ r * r * r * r * r * r = n

\* std::sqrt(x), for x a special value or the square of a rational
Sqrt(x) ==
    IF IsNaN(x) \/ x[1] < 0 THEN NaN
    ELSE IF IsInf(x) THEN PInf
    ELSE Q(ISqrt(x[1]), ISqrt(x[2]))

\* x^(1/6), for x a special value or the sixth power of a rational
Root6(x) ==
    IF IsNaN(x) \/ x[1] < 0 THEN NaN
    ELSE IF IsInf(x) THEN PInf
    ELSE Q(IRoot6(x[1]), IRoot6(x[2]))

RECURSIVE PowInt(_, _)
PowInt(x, k) == IF k = 0 THEN Z(1) ELSE Mul(PowInt(x, k - 1), x)

\* std::pow(x, 5.0/6.0) and std::pow(x, 7.0/6.0)
Pow56(x) == PowInt(Root6(x), 5)
Pow76(x) == PowInt(Root6(x), 7)

\* c of weight_function_base::operator(), Kolmogorov_Cn2_scale * 16e13 * PI^2,
\* in units of 1e13 and rounded to a rational; and 2 * PI of
\* weight_function::operator()
WeightScale == Q(3, 2)
TwoPi == Q(44, 7)

\* z of weight_function_base::operator(): the spline coordinate of an altitude
SplineCoordinate(wf, altitude) ==
    LET fresnel_radius == Sqrt(Mul(wf.lambda, altitude))
    IN  Div(Sub(Div(Z(1), Add(Z(1), Div(wf.aperture_scale, fresnel_radius))),
                wf.grid.origin),
            wf.grid.delta)

\* weight_function_base::operator()(altitude), wfz being wf_(z)
WeightBase(wf, altitude, wfz) ==
    Mul(Div(Mul(WeightScale, Pow56(altitude)), Pow76(wf.lambda)), wfz)

\* weight_function::operator()(altitude)
WeightAt(wf, altitude, wfz) == Mul(TwoPi, WeightBase(wf, altitude, wfz))

\* the wavelengths (nm), aperture scales (mm) and altitudes (km) of the calls
Lambdas == {Z(1), Z(64)}
ApertureScales == {Z(0), Z(8)}
Altitudes == {Z(0), Z(1), Z(64), PInf}

\* weight_function(spectral_filter, lambda, aperture_filter, aperture_scale,
\* size): the grid 0, 1/(size-1), ..., 1 and the spline of the knot values
WeightConstruct ==
    /\ pc = "start"
    /\ \E n \in 2..MaxKnots : \E y \in [0..(n - 1) -> KnotValues] :
       \E lambda \in Lambdas, scale \in ApertureScales :
          /\ a' = [lambda |-> lambda, aperture_scale |-> scale,
                   grid |-> uniform_grid(Z(0), Div(Z(1), Z(n - 1)), n)]
          /\ values_' = y
          /\ d2_' = init_d2(y, first_order_boundary(Z(0), Z(0)))
    /\ out' = [op |-> "weight_function"]
    /\ pc' = "wf"
    /\ UNCHANGED b

\* operator()(altitude)
WeightEval ==
    /\ pc = "wf"
    /\ \E altitude \in Altitudes :
       LET z == SplineCoordinate(a, altitude)
       IN  \E idx \in SizeTCast(z) : \E gv \in OOBValues, gd \in OOBValues :
              out' = [op |-> "weight", altitude |-> altitude, z |-> z,
                      idx |-> idx,
                      oob |-> ReadsOutOfBounds(values_, idx),
                      result |-> WeightAt(a, altitude,
                                          SplineAt(values_, d2_, z, idx, gv, gd))]
    /\ pc' = "done"
    /\ UNCHANGED <<a, b, values_, d2_>>

NextWeight ==
    \/ WeightConstruct
    \/ WeightEval

SpecWeight == Init /\ [][NextWeight]_vars

---------------------------------------------------------------------------
(* The integrand of the 1-D weight function, in its two revisions.         *)
(*   start --SpectrumFcnt | Fun--> done                                    *)
(* sin, exp and sinc_pi are library functions: a filter's value at a       *)
(* finite argument is an input (v), its value at an infinite or NaN        *)
(* argument is what the filter's code makes of sin(inf) = NaN,             *)
(* exp(-inf) = 0 and NaN operands.                                         *)

\* x^(1/3), for x a special value or the cube of a rational
ICbrt(n) == CHOOSE r \in 0..n : r * r * r = n

Cbrt(x) ==
    IF IsNaN(x) \/ x[1] < 0 THEN NaN
    ELSE IF IsInf(x) THEN PInf
    ELSE Q(ICbrt(x[1]), ICbrt(x[2]))

\* std::pow(u, 8.0/3.0), std::pow(u, 4.0/3.0) and std::pow(u, -8.0/3.0)
Pow83(u) == PowInt(Cbrt(u), 8)
Pow43(u) == PowInt(Cbrt(u), 4)
PowNeg83(u) == Inv(Pow83(u))

\* sf::mono::operator()(x) = pow(sin(PI * x), 2) and sf::gauss::operator()(x)
\* with fwhm > 0, which returns 0 when its exponential factor is 0
SpectralFilterAt(sf, x, v) ==
    IF sf = "mono" THEN (IF IsFinite(x) THEN v ELSE NaN)
    ELSE IF IsInf(x) THEN Z(0)
    ELSE IF IsNaN(x) THEN NaN
    ELSE v

\* af::point::operator()(u) = 1 and af::gauss::operator()(u) = exp(-u*u)
ApertureFilterAt(af, u, v) ==
    IF af = "point" THEN Z(1)
    ELSE IF IsInf(u) THEN Z(0)
    ELSE IF IsNaN(u) THEN NaN
    ELSE v

\* spectrum_fcnt(u, x) of detail::dimensionless_weight_function; sv and av
\* are the values of the two filters at a finite argument
spectrum_fcnt(sf, af, u, x, sv, av) ==
    LET t == Pow83(u)
    IN  IF Eq(t, Z(0)) THEN Z(0)
        ELSE Div(Mul(SpectralFilterAt(sf, Mul(u, u), sv),
                     ApertureFilterAt(af, Mul(x, u), av)), t)

\* the integrand lambda of the earlier weight_function constructor; rv is the
\* value of spectral_filter.regular at a finite argument
fun(sf, af, u, x, sv, rv, av) ==
    IF Eq(u, Z(0)) \/ Eq(u, PInf) THEN Z(0)
    ELSE IF Lt(u, Z(1))
    THEN Mul(Mul(Pow43(u), rv), ApertureFilterAt(af, Mul(x, u), av))
    ELSE LET t == PowNeg83(u)
         IN  IF Eq(t, Z(0)) THEN Z(0)
             ELSE Mul(Mul(t, SpectralFilterAt(sf, Mul(u, u), sv)),
                      ApertureFilterAt(af, Mul(x, u), av))

\* the member of the spectral filter that spectrum_fcnt calls at u: none when
\* it returns 0 at once, operator() otherwise
spectrum_fcnt_branch(u) ==
    IF Eq(Pow83(u), Z(0)) THEN "none" ELSE "operator()"

\* the member of the spectral filter that the integrand lambda of the
\* earlier constructor calls at u
fun_branch(u) ==
    IF Eq(u, Z(0)) \/ Eq(u, PInf) THEN "none"
    ELSE IF Lt(u, Z(1)) THEN "regular"
    ELSE IF Eq(PowNeg83(u), Z(0)) THEN "none"
    ELSE "operator()"

SpectralFilters == {"mono", "gauss"}
ApertureFilters == {"point", "gauss"}
\* the values of sin^2 (times a Gaussian), of exp(-u*u) and of regular()
SpectralValues == {Z(0), Q(1, 2), Z(1)}
ApertureValues == {Q(1, 2), Z(1)}
RegularValues == {Z(1), Z(9)}
\* the abscissas u and the scale factors x = (1 - z) / z for z = 1, 1/2, 0
Abscissas == {Z(0), Q(1, 8), Z(1), Z(8), PInf}
ScaleFactors == {Z(0), Z(1), PInf}

\* cyl_bessel_j(1, x) / x * 2 at the arguments the filters are probed at, to
\* three decimals
BesselJinc(x) ==
    CASE x = Q(1, 4) -> Q(992, 1000)
      [] x = Q(1, 2) -> Q(969, 1000)
      [] x = Z(1) -> Q(880, 1000)
      [] x = Z(2) -> Q(577, 1000)
      [] x = Z(4) -> Q(-33, 1000)
      [] x = Z(8) -> Q(59, 1000)
      [] x = Z(16) -> Q(11, 1000)

\* af::detail::airy_tmp(x): the Bessel quotient, which is even in x, or
\* 1 - x*x/8 below 3.7 * forth_root_epsilon (0.07 for float)
airy_tmp(x) ==
    IF Le(Q(1, 16), <<Abs(x[1]), x[2]>>)
    THEN BesselJinc(<<Abs(x[1]), x[2]>>)
    ELSE Sub(Z(1), Div(Mul(x, x), Z(8)))

\* circular::operator() without the square
circular_amplitude(piu) == airy_tmp(piu)

\* af::circular::operator()(u), piu = PI * u
circular(piu) == Mul(airy_tmp(piu), airy_tmp(piu))

\* af::annular::operator()(u)
annular(obscuration, piu) ==
    LET eps2 == Mul(obscuration, obscuration)
        norm == Mul(Sub(Z(1), eps2), Sub(Z(1), eps2))
        amplitude == Sub(airy_tmp(piu),
                         Mul(eps2, airy_tmp(Mul(obscuration, piu))))
    IN  Div(Mul(amplitude, amplitude), norm)

\* af::cross_annular::calc(u, obscuration)
calc(piu, obscuration) ==
    LET eps2 == Mul(obscuration, obscuration)
        norm == Sub(Z(1), eps2)
    IN  Div(Sub(airy_tmp(piu), Mul(eps2, airy_tmp(Mul(obscuration, piu)))),
            norm)

\* af::cross_annular::operator()(u)
cross_annular(ratio, obscuration_first, obscuration_second, piu) ==
    Mul(calc(piu, obscuration_first),
        calc(Mul(piu, ratio), obscuration_second))

\* the arguments PI * u, the central obscurations and the ratios of the two
\* aperture scales
PiUs == {Z(-2), Z(0), Z(1), Z(2), Z(4), Z(8)}
Obscurations == {Z(0), Q(1, 2)}
Ratios == {Q(1, 2), Z(1), Z(2)}

\* A(u) of a radially symmetric aperture filter
Aperture ==
    /\ pc = "start"
    /\ \E piu \in PiUs, ratio \in Ratios, eps1 \in Obscurations,
          eps2 \in Obscurations :
          \/ out' = [op |-> "aperture", af |-> "point", piu |-> piu,
                     result |-> ApertureFilterAt("point", piu, Z(1))]
          \/ out' = [op |-> "aperture", af |-> "circular", piu |-> piu,
                     result |-> circular(piu)]
          \/ out' = [op |-> "aperture", af |-> "annular", piu |-> piu,
                     obscuration |-> eps1, result |-> annular(eps1, piu)]
          \/ out' = [op |-> "aperture", af |-> "cross_annular", piu |-> piu,
                     ratio |-> ratio, obscuration_first |-> eps1,
                     obscuration_second |-> eps2,
                     result |-> cross_annular(ratio, eps1, eps2, piu)]
    /\ pc' = "done"
    /\ UNCHANGED <<a, b, values_, d2_>>

SpectrumFcnt ==
    /\ pc = "start"
    /\ \E sf \in SpectralFilters, af \in ApertureFilters, u \in Abscissas,
          x \in ScaleFactors, sv \in SpectralValues, av \in ApertureValues :
          out' = [op |-> "spectrum_fcnt", sf |-> sf, af |-> af, u |-> u,
                  x |-> x, branch |-> spectrum_fcnt_branch(u),
                  result |-> spectrum_fcnt(sf, af, u, x, sv, av)]
    /\ pc' = "done"
    /\ UNCHANGED <<a, b, values_, d2_>>

Fun ==
    /\ pc = "start"
    /\ \E sf \in SpectralFilters, af \in ApertureFilters, u \in Abscissas,
          x \in ScaleFactors, sv \in SpectralValues, rv \in RegularValues,
          av \in ApertureValues :
          out' = [op |-> "fun", sf |-> sf, af |-> af, u |-> u,
                  x |-> x, branch |-> fun_branch(u),
                  result |-> fun(sf, af, u, x, sv, rv, av)]
    /\ pc' = "done"
    /\ UNCHANGED <<a, b, values_, d2_>>

NextIntegrand ==
    \/ SpectrumFcnt
    \/ Fun
    \/ Aperture

SpecIntegrand == Init /\ [][NextIntegrand]_vars

---------------------------------------------------------------------------
(* sf::poly: construction from a response, and normalize.                  *)
(*   start --PolyConstruct | PolyConstructDefault--> poly | aborted        *)
(*   poly --PolyNormalize--> normalized                                    *)
(* The filter is held in a, the response it was built from in b.  A        *)
(* complex sample is a record [re, im]; a spline is a record [values, d2]. *)

\* spectral_response::effective_lambda: origin + delta * average(arange(n),
\* weights = data / grid.values())
RECURSIVE WeightedIndexSum(_, _, _)
WeightedIndexSum(grid, data, n) ==
    IF n = 0 THEN Z(0)
    ELSE Add(WeightedIndexSum(grid, data, n - 1),
             Mul(Z(n - 1), Div(data[n - 1], value(grid, n - 1))))

effective_lambda(response) ==
    LET weights == [i \in DOMAIN response.data |->
                       Div(response.data[i], value(response.grid, i))]
        average == Div(WeightedIndexSum(response.grid, response.data,
                                        Size(response.data)),
                       Sum(weights))
    IN  Add(response.grid.origin, Mul(response.grid.delta, average))

\* the padding without the tiling by 2
PadWithoutTile(e, size, padded_size) ==
    LET len == Size(e) + (IF padded_size > size THEN padded_size - size ELSE 0)
    IN  [j \in 0..(len - 1) |-> IF j < Size(e) THEN e[j] ELSE Z(0)]

\* xt::tile(xt::pad(e, {0, padded_size > size ? padded_size - size : 0}), {2})
PadTile(e, size, padded_size) ==
    LET len == Size(e) + (IF padded_size > size THEN padded_size - size ELSE 0)
    IN  [j \in 0..(2 * len - 1) |->
            IF j % len < Size(e) THEN e[j % len] ELSE Z(0)]

\* the sum e(0) - e(1) + e(2) - ... of the first n elements
RECURSIVE AlternatingSumTo(_, _)
AlternatingSumTo(e, n) ==
    IF n = 0 THEN Z(0)
    ELSE IF (n - 1) % 2 = 0 THEN Add(AlternatingSumTo(e, n - 1), e[n - 1])
    ELSE Sub(AlternatingSumTo(e, n - 1), e[n - 1])

\* bin k of the forward real-to-complex transform of e, the sum over j of
\* e(j) * exp(-2 pi i j k / n); the transforms of up to 4 points have
\* rational twiddle factors, longer ones are outside the sizes of the model
Rfft(e, k) ==
    LET n == Size(e)
    IN  IF k = 0 THEN [re |-> Sum(e), im |-> Z(0)]
        ELSE IF 2 * k = n THEN [re |-> AlternatingSumTo(e, n), im |-> Z(0)]
        ELSE IF n = 4 /\ k = 1
        THEN [re |-> Sub(e[0], e[2]), im |-> Sub(e[3], e[1])]
        ELSE [re |-> NaN, im |-> NaN]

\* make_fft without the boundary condition: the last sample is left as the
\* transform computed it
make_fft_keep_last(e) ==
    LET size == Size(e)
    IN  [k \in 0..(size \div 2) |-> Rfft(e, k)]

\* poly::make_fft: size / 2 + 1 samples, the last one set to {0, 0}
make_fft(e) ==
    LET size == Size(e)
        ret == [k \in 0..(size \div 2) |-> Rfft(e, k)]
    IN  [ret EXCEPT ![size \div 2] = [re |-> Z(0), im |-> Z(0)]]

\* cubic_spline(e, boundary): the outcomes of the constructor.  For fewer
\* than 2 values assert(n > 1) fails; without assertions init_d2 reads and
\* writes past the end of its tensors and d2_ holds what it found there
cubic_spline(e, boundary) ==
    IF Size(e) > 1
    THEN {[kind |-> "ok", values |-> e, d2 |-> init_d2(e, boundary)]}
    ELSE {[kind |-> "assert_failed"]}
         \cup {[kind |-> "ok", values |-> e, d2 |-> [i \in DOMAIN e |-> g]] :
                  g \in OOBValues}

\* operator*= scaling the knot values only
SplineTimesValues(s, x) ==
    [s EXCEPT !.values = [i \in DOMAIN s.values |-> Mul(s.values[i], x)]]

\* cubic_spline::operator*=(x): values_ *= x; d2_ *= x
SplineTimes(s, x) ==
    [s EXCEPT !.values = [i \in DOMAIN s.values |-> Mul(s.values[i], x)],
              !.d2 = [i \in DOMAIN s.d2 |-> Mul(s.d2[i], x)]]

\* poly::eval_equiv_lambda: 3.28 * pow(i, -6/7) with i the exp-sinh quadrature
\* of the filter; i is 0 for a filter whose splines vanish, and the quadrature
\* of any other filter is an input (quad is 3.28 * pow(i, -6/7))
eval_equiv_lambda(real, imag, quad) ==
    IF /\ \A i \in DOMAIN real.values : real.values[i] = Z(0) /\ real.d2[i] = Z(0)
       /\ \A i \in DOMAIN imag.values : imag.values[i] = Z(0) /\ imag.d2[i] = Z(0)
    THEN PInf
    ELSE quad

\* the carrier taken to be the index itself
CarrierAtIndex(g, carrier_idx) == Z(carrier_idx)

\* response.grid().values()[carrier_idx]: the generator is not bounds-checked
CarrierAt(g, carrier_idx) == value(g, carrier_idx)

\* poly(response, carrier_idx, padded_size) and the constructors it delegates
\* to: the outcomes of the construction
poly_idx(response, carrier_idx, padded_size, quad) ==
    LET g == response.grid
        delta == Div(Div(Z(1), g.delta), Z(padded_size))
        ratio == [i \in DOMAIN response.data |->
                     Div(response.data[i], value(g, i))]
        tiled == PadTile(ratio, g.size, padded_size)
        e == make_fft(View(tiled, carrier_idx, carrier_idx + padded_size))
        re == [k \in DOMAIN e |-> e[k].re]
        im == [k \in DOMAIN e |-> e[k].im]
    IN  { IF real.kind = "ok" /\ imag.kind = "ok"
          THEN [kind |-> "ok",
                grid |-> uniform_grid(Z(0), delta, Size(e)),
                real |-> [values |-> real.values, d2 |-> real.d2],
                imag |-> [values |-> imag.values, d2 |-> imag.d2],
                carrier |-> CarrierAt(g, carrier_idx),
                equiv_lambda |-> eval_equiv_lambda(real, imag, quad)]
          ELSE [kind |-> "assert_failed"] :
          real \in cubic_spline(re, first_order_boundary(Z(0), Z(0))),
          imag \in cubic_spline(im, second_order_boundary(Z(0), Z(0))) }

\* poly(response, size, carrier)
poly(response, size, carrier, quad) ==
    UNION { poly_idx(response, carrier_idx,
                     IF response.grid.size < size THEN size
                     ELSE response.grid.size, quad) :
            carrier_idx \in to_index(response.grid, carrier) }

\* poly::normalize
normalizePoly(p) ==
    LET lambda_0 == p.equiv_lambda
    IN  [p EXCEPT !.grid = Multiply(p.grid, lambda_0),
                  !.carrier = Div(p.carrier, lambda_0),
                  !.equiv_lambda = Div(p.equiv_lambda, lambda_0),
                  !.real = SplineTimes(p.real, lambda_0),
                  !.imag = SplineTimes(p.imag, lambda_0)]

\* the responses a filter is built from, the requested sizes, carriers and
\* quadrature results
PolyOrigins == {Z(1), Z(2)}
PolyValues == {Z(0), Z(1), Z(2)}
PolyResponses ==
    UNION {{spectral_response(uniform_grid(o, d, n), data) :
               o \in PolyOrigins, d \in Deltas, data \in [0..(n - 1) -> PolyValues]} :
           n \in 1..MaxRSize}
Carriers == {Z(0), Z(1), Q(3, 2), Z(2), Z(3), Z(5)}
EquivLambdas == {Q(1, 2), Z(2)}

\* poly(response, size, carrier)
PolyConstruct ==
    /\ pc = "start"
    /\ \E response \in PolyResponses, size \in 0..MaxPolySize,
          carrier \in Carriers, quad \in EquivLambdas :
       \E p \in poly(response, size, carrier, quad) :
          /\ a' = p
          /\ b' = response
          /\ out' = [op |-> "poly", size |-> size, carrier |-> carrier]
          /\ pc' = IF p.kind = "ok" THEN "poly" ELSE "aborted"
    /\ UNCHANGED <<values_, d2_>>

\* poly(response, size): the carrier is response.effective_lambda()
PolyConstructDefault ==
    /\ pc = "start"
    /\ \E response \in PolyResponses, size \in 0..MaxPolySize,
          quad \in EquivLambdas :
       \E p \in poly(response, size, effective_lambda(response), quad) :
          /\ a' = p
          /\ b' = response
          /\ out' = [op |-> "poly", size |-> size,
                      carrier |-> effective_lambda(response)]
          /\ pc' = IF p.kind = "ok" THEN "poly" ELSE "aborted"
    /\ UNCHANGED <<values_, d2_>>

\* normalize()
PolyNormalize ==
    /\ pc = "poly"
    /\ a' = normalizePoly(a)
    /\ out' = [op |-> "normalize", size |-> out.size, carrier |-> out.carrier,
                pre |-> a]
    /\ pc' = "normalized"
    /\ UNCHANGED <<b, values_, d2_>>

NextPoly ==
    \/ PolyConstruct
    \/ PolyConstructDefault
    \/ PolyNormalize

SpecPoly == Init /\ [][NextPoly]_vars

---------------------------------------------------------------------------
(* FFT plans: detail::fft_plan and the objects that hold one.              *)
(* fft_plan keeps the FFTW plan in a std::unique_ptr with a deleter that   *)
(* calls destroy_plan; its copy constructor is deleted and it has no move  *)
(* constructor, so no operation of the program hands a plan to another     *)
(* object.  The state is the set of wrappers (a) and of FFTW plans (b).    *)
(*   start | plans --GridConstruct | GridCall | GridDestroy | MakeFft-->   *)
(*   plans | aborted                                                       *)

\* the null plan_type
NullPlan == 0

\* the identities of the FFTW plans and of the wrappers
PlanIds == 1..MaxPlans
WrapperIds == 1..MaxPlans

\* the wrappers and the plans of the state
Wrappers ==
    IF pc = "start"
    THEN [w \in WrapperIds |->
             [state |-> "none", plan |-> NullPlan, shape |-> <<0, 0>>]]
    ELSE a
Plans ==
    IF pc = "start"
    THEN [p \in PlanIds |->
             [state |-> "none", owner |-> 0, by |-> "none", destroyed |-> 0,
              executed |-> 0, executed_destroyed |-> FALSE]]
    ELSE b

\* traits_type::plan_dft_r2c / plan_r2r called from the constructor `by` of
\* wrapper w: the plans the planner can return (NullPlan when it fails)
plan_new(plans) == {p \in PlanIds : plans[p].state = "none"} \cup {NullPlan}

\* the plans after the planner has returned p to the constructor of w
planned(plans, p, w, by) ==
    IF p = NullPlan THEN plans
    ELSE [plans EXCEPT ![p] = [@ EXCEPT !.state = "allocated", !.owner = w,
                                        !.by = by]]

\* traits_type::execute_dft_r2c / execute_r2r on plan p
execute(plans, p) ==
    [plans EXCEPT ![p] =
        [@ EXCEPT !.executed = IF @ < MaxExec THEN @ + 1 ELSE @,
                  !.executed_destroyed = @ \/ plans[p].state = "destroyed"]]

\* a deleter that leaves the plan allocated
destroy_plan_leak(plans, p) == plans

\* deleter::operator(): traits_type::destroy_plan(plan)
destroy_plan(plans, p) ==
    [plans EXCEPT ![p] = [@ EXCEPT !.state = "destroyed",
                                   !.destroyed = @ + 1]]

\* ~fft_plan: the unique_ptr calls its deleter unless it holds nullptr
fft_plan_dtor(plans, p) ==
    IF p = NullPlan THEN plans ELSE destroy_plan(plans, p)

\* the shapes (N_x, N_y) of a grid of apertures
Shapes == {<<1, 1>>, <<2, 3>>}

\* a tensor of the given shape filled with v
Filled(shape, v) ==
    [i \in 0..(shape[1] - 1), j \in 0..(shape[2] - 1) |-> v]

\* operator() without the test for a zero altitude
grid_2d_call_always(plans, w, altitude, v) ==
    [result |-> Filled(w.shape, v),
     plans |-> execute(plans, w.plan),
     kernel_calls |-> w.shape[1] * w.shape[2],
     executed |-> TRUE]

\* weight_function_grid_2d::operator()(altitude) of the grid w: a zero
\* altitude returns xt::zeros(shape) at once; otherwise the kernel fun_ is
\* evaluated at each of the N_x * N_y frequencies, the plan is executed in
\* place and the tensor is scaled (its elements are the input v)
grid_2d_call(plans, w, altitude, v) ==
    IF Eq(altitude, Z(0))
    THEN [result |-> Filled(w.shape, Z(0)),
          plans |-> plans,
          kernel_calls |-> 0,
          executed |-> FALSE]
    ELSE [result |-> Filled(w.shape, v),
          plans |-> execute(plans, w.plan),
          kernel_calls |-> w.shape[1] * w.shape[2],
          executed |-> TRUE]

\* weight_function_grid_2d_base(lambda, aperture_scale, grid_step, shape,
\* fun): plan_ is built in the member initialiser list; a failed planner
\* trips assert(plan != nullptr), or leaves a null plan_ when assertions are
\* compiled out
GridConstruct ==
    /\ pc \in {"start", "plans"}
    /\ \E w \in WrapperIds, p \in plan_new(Plans) :
          /\ Wrappers[w].state = "none"
          /\ \/ /\ p # NullPlan
                /\ pc' = "plans"
                /\ out' = [op |-> "construct", wrapper |-> w, plan |-> p,
                            executed |-> FALSE]
             \/ /\ p = NullPlan
                /\ pc' \in {"plans", "aborted"}
                /\ out' = [op |-> "construct_failed", wrapper |-> w,
                            plan |-> p, executed |-> FALSE]
          /\ \E shape \in Shapes :
                a' = [Wrappers EXCEPT ![w] = [state |-> "alive", plan |-> p,
                                              shape |-> shape]]
          /\ b' = planned(Plans, p, w, "constructor")
    /\ UNCHANGED <<values_, d2_>>

\* weight_function_grid_2d::operator()(altitude): a null plan_ is not
\* executed by the zero altitude, and executing it is undefined (the call
\* crashes or carries on)
GridCall ==
    /\ pc = "plans"
    /\ \E w \in WrapperIds, altitude \in {Z(0), Z(1)}, v \in {Z(0), Z(1)} :
          /\ a[w].state = "alive"
          /\ IF a[w].plan = NullPlan /\ ~Eq(altitude, Z(0))
             THEN /\ b' = b
                  /\ pc' \in {"plans", "aborted"}
                  /\ out' = [op |-> "call_null", wrapper |-> w,
                              plan |-> a[w].plan, executed |-> FALSE]
             ELSE LET r == grid_2d_call(b, a[w], altitude, v)
                  IN  /\ b' = r.plans
                      /\ pc' = pc
                      /\ out' = [op |-> "call", wrapper |-> w,
                                  plan |-> a[w].plan,
                                  executed |-> r.executed,
                                  altitude |-> altitude,
                                  kernel_calls |-> r.kernel_calls,
                                  result |-> r.result]
    /\ UNCHANGED <<a, values_, d2_>>

\* ~weight_function_grid_2d: the member plan_ is destroyed with its owner
GridDestroy ==
    /\ pc = "plans"
    /\ \E w \in WrapperIds :
          /\ a[w].state = "alive"
          /\ a' = [a EXCEPT ![w].state = "destroyed"]
          /\ b' = fft_plan_dtor(b, a[w].plan)
          /\ out' = [op |-> "destroy", wrapper |-> w, plan |-> a[w].plan,
                      executed |-> FALSE]
    /\ UNCHANGED <<pc, values_, d2_>>

\* poly::make_fft: the local plan is built, executed once and destroyed when
\* the function returns
MakeFft ==
    /\ pc \in {"start", "plans"}
    /\ \E w \in WrapperIds, p \in plan_new(Plans) :
          /\ Wrappers[w].state = "none"
          /\ a' = [Wrappers EXCEPT ![w] = [state |-> "destroyed",
                                           plan |-> p, shape |-> <<0, 0>>]]
          /\ \/ /\ p # NullPlan
                /\ b' = fft_plan_dtor(
                            execute(planned(Plans, p, w, "constructor"), p),
                            p)
                /\ pc' = "plans"
                /\ out' = [op |-> "make_fft", wrapper |-> w, plan |-> p,
                            executed |-> TRUE]
             \/ /\ p = NullPlan
                /\ b' = Plans
                /\ pc' \in {"plans", "aborted"}
                /\ out' = [op |-> "make_fft_failed", wrapper |-> w,
                            plan |-> p, executed |-> FALSE]
    /\ UNCHANGED <<values_, d2_>>

NextPlan ==
    \/ GridConstruct
    \/ GridCall
    \/ GridDestroy
    \/ MakeFft

SpecPlan == Init /\ [][NextPlan]_vars

---------------------------------------------------------------------------
(* spectral_response::stack_from_files and the command-line programs.      *)
(*   start --StackFromFiles | Main--> done | aborted                       *)

\* the two columns of a response file with the given wavelengths: the values
\* are 2, 3, 4, ...
ResponseFile(grid_column) ==
    [grid_column |-> grid_column, data_column |-> DataA(Len(grid_column))]

\* the response files on disk: nested and overlapping ranges of step 1, a
\* range of another phase, a range of another step, a non-uniform column, an
\* empty file
Files ==
    {ResponseFile(c) : c \in
        {<<Z(0), Z(1), Z(2), Z(3)>>, <<Z(1), Z(2)>>, <<Z(1), Z(2), Z(3)>>,
         <<Z(0), Z(1)>>, <<Z(3)>>, <<Q(1, 2), Q(3, 2)>>, <<Z(0), Z(2)>>,
         <<Z(0), Z(1), Z(3)>>, <<>>}}

\* the lists of file names a caller passes
FileLists == UNION {[1..n -> Files] : n \in 0..MaxFiles}

\* spectral_response::make_from_file: the grid is built from the first column
\* with uniform_grid(begin, end), which throws non_uniform_grid
make_from_file(file) ==
    LET g == uniform_grid_iter(file.grid_column)
    IN  IF g.kind = "throw" THEN [kind |-> "throw", what |-> g.what]
        ELSE [kind |-> "ok",
              self |-> spectral_response(g.grid, file.data_column)]

\* the std::accumulate of stack_from_files from file i on: each loaded
\* response c does c.stack(*acc) and becomes the accumulator; an exception or
\* a failed assertion ends the fold
RECURSIVE Accumulate(_, _, _)
Accumulate(files, i, acc) ==
    IF i > Len(files) THEN {acc}
    ELSE LET c == make_from_file(files[i])
         IN  IF c.kind = "throw" THEN {c}
             ELSE IF acc.kind = "none" THEN Accumulate(files, i + 1, c)
             ELSE UNION {
                    IF r.kind = "ok"
                    THEN Accumulate(files, i + 1,
                                    [kind |-> "ok", self |-> r.self])
                    ELSE IF r.kind = "throw"
                    THEN {[kind |-> "throw", what |-> r.what]}
                    ELSE {[kind |-> r.kind]} :
                    r \in stack(c.self, acc.self) }

\* stack_from_files returning an empty response for an empty list
stack_from_files_or_empty(files) ==
    { IF r.kind = "none"
      THEN [kind |-> "ok",
            self |-> spectral_response(uniform_grid(Z(0), Z(1), 0), <<>>)]
      ELSE r : r \in Accumulate(files, 1, None) }

\* spectral_response::stack_from_files(begin, end): the outcomes; value() of
\* the empty optional throws std::bad_optional_access
stack_from_files(files) ==
    { IF r.kind = "none"
      THEN [kind |-> "throw", what |-> "bad_optional_access"]
      ELSE r : r \in Accumulate(files, 1, None) }

\* how main ends on the outcome r of its try block: it catches po::error
\* only, any other exception leaves main and std::terminate aborts the
\* process, as a failed assertion does
exit_status(r) ==
    IF r.kind = "ok" THEN [how |-> "return", code |-> 0, printed |-> "none"]
    ELSE IF r.kind = "throw" /\ r.what = "po::error"
    THEN [how |-> "return", code |-> 1, printed |-> r.what]
    ELSE [how |-> "abort", code |-> 134, printed |-> "none"]

\* stack_from_files(begin, end) called by a client
StackFromFiles ==
    /\ pc = "start"
    /\ \E files \in FileLists :
       \E r \in stack_from_files(files) :
          /\ a' = r
          /\ b' = files
          /\ out' = [op |-> "stack_from_files", failure |-> "none",
                      status |-> exit_status(r)]
          /\ pc' = IF r.kind = "assert_failed" THEN "aborted" ELSE "done"
    /\ UNCHANGED <<values_, d2_>>

\* main(argc, argv) of the weight function program: the options are parsed
\* (a malformed command line, or one without --response_filename, throws
\* po::error), then make_spectral_filter stacks the response files unless
\* --mono is given, and the rest of the computation succeeds
Main ==
    /\ pc = "start"
    /\ \E parse \in {"ok", "po::error"}, mono \in BOOLEAN,
          files \in FileLists :
       \E r \in IF parse # "ok" \/ Len(files) = 0
                THEN {[kind |-> "throw", what |-> "po::error"]}
                ELSE IF mono THEN {[kind |-> "ok", self |-> None]}
                ELSE stack_from_files(files) :
          /\ a' = r
          /\ b' = files
          /\ out' = [op |-> "main",
                      failure |-> IF r.kind = "ok" THEN "none"
                                  ELSE IF r.kind = "throw" THEN r.what
                                  ELSE r.kind,
                      status |-> exit_status(r)]
          /\ pc' = IF exit_status(r).how = "abort" THEN "aborted" ELSE "done"
    /\ UNCHANGED <<values_, d2_>>

NextFiles ==
    \/ StackFromFiles
    \/ Main

SpecFiles == Init /\ [][NextFiles]_vars

---------------------------------------------------------------------------
(* Vocabulary of the claims.                                               *)

\* a UniformGrid of the data model: its step is positive
PositiveStep(g) == Lt(Z(0), g.delta)

\* the set of values of a grid
GridValues(g) == {value(g, i) : i \in 0..(g.size - 1)}

\* x is an integer
IsInteger(x) == x[2] = 1

\* same step, and origins that differ by an integer multiple of it
Congruent(g, h) ==
    /\ Eq(g.delta, h.delta)
    /\ IF g.delta = Z(0) THEN Eq(g.origin, h.origin)
       ELSE IsInteger(Div(Sub(g.origin, h.origin), g.delta))

\* the value ranges [origin, last value] share no point (an empty grid has an
\* empty range)
RangesDisjoint(g, h) ==
    \/ g.size = 0
    \/ h.size = 0
    \/ Lt(Last(g), h.origin)
    \/ Lt(Last(h), g.origin)

\* the larger of two numbers
Max(x, y) == IF Lt(x, y) THEN y ELSE x

\* both grids of the state have a positive step and match() accepts them
PhaseMatching(g, h) == PositiveStep(g) /\ PositiveStep(h) /\ match(g, h)

---------------------------------------------------------------------------
(* C1 *)

\* C1: evaluating the spline at every integer i of [0, N-1], the last knot
\* i = N-1 included, returns y_i.
C1_SplineReturnsKnotValues ==
    (pc = "done" /\ out.op = "eval" /\ IsInteger(out.x))
        => Eq(out.result, values_[out.x[1]])

---------------------------------------------------------------------------
(* C2 *)

\* the positions i >= 2 of s whose element is not s[1] + i*(s[2] - s[1])
Offending(s) ==
    {i \in 2..(Len(s) - 1) :
        s[i + 1] # Add(s[1], Mul(Z(i), Sub(s[2], s[1])))}

\* C2: a grid built from an iterable has origin = first element and delta =
\* second - first; if some element at a position i >= 2 differs from
\* origin + i*delta, construction fails with NonUniformGrid carrying the
\* smallest such i, the element found there and origin + i*delta, and no grid
\* is produced.
C2_NonUniformGridFirstOffender ==
    (out.op = "from_iterable") =>
        LET s == out.input
            n == Len(s)
        IN  IF n >= 2 /\ Offending(s) # {}
            THEN LET i == CHOOSE i \in Offending(s) : \A j \in Offending(s) : i <= j
                 IN  /\ out.kind = "throw"
                     /\ out.what = "non_uniform_grid"
                     /\ out.pos = i
                     /\ out.actual = s[i + 1]
                     /\ out.expected = Add(s[1], Mul(Z(i), Sub(s[2], s[1])))
                     /\ pc = "failed"
                     /\ a = None
            ELSE /\ out.kind = "ok"
                 /\ pc = "haveA"
                 /\ a.grid.size = n
                 /\ n >= 2 => /\ a.grid.origin = s[1]
                              /\ a.grid.delta = Sub(s[2], s[1])

\* a four-element iterable whose positions 2 and 3 both offend was rejected
C2_Witness ==
    /\ out.op = "from_iterable"
    /\ out.kind = "throw"
    /\ Offending(out.input) = {2, 3}
    /\ out.pos = 2

---------------------------------------------------------------------------
(* C3 *)

\* C3: when the steps differ or the origins are not congruent modulo the
\* step, a.intersect(b) and b.intersect(a) both fail with MismatchedGrids,
\* whether or not the ranges overlap, and return no grid.
C3_MismatchedGridsThrow ==
    (pc = "done" /\ out.op = "intersect" /\ ~Congruent(a.grid, b.grid)) =>
        /\ out.res = [kind |-> "throw", what |-> "mismatched_grids"]
        /\ \A r \in intersect(b.grid, a.grid) :
              r = [kind |-> "throw", what |-> "mismatched_grids"]

\* equal positive steps, origins out of phase, disjoint non-empty ranges: thrown
C3_Witness ==
    /\ pc = "done"
    /\ out.op = "intersect"
    /\ PositiveStep(a.grid)
    /\ Eq(a.grid.delta, b.grid.delta)
    /\ ~Congruent(a.grid, b.grid)
    /\ a.grid.size >= 1
    /\ b.grid.size >= 1
    /\ RangesDisjoint(a.grid, b.grid)
    /\ out.res.kind = "throw"

---------------------------------------------------------------------------
(* C4 *)

---------------------------------------------------------------------------
(* C5 *)

---------------------------------------------------------------------------
(* C6 *)

---------------------------------------------------------------------------
(* C7 *)

\* the grids a state holds
GridsOfState ==
    (IF pc \in {"haveA", "haveAB", "done"} THEN {a.grid} ELSE {})
    \cup (IF pc \in {"haveAB"} \/ (pc = "done" /\ b # None) THEN {b.grid} ELSE {})
    \cup (IF out.op \in {"multiply", "divide"} THEN {out.grid} ELSE {})
    \cup (IF out.op = "intersect" /\ out.res.kind = "ok" THEN {out.res.grid} ELSE {})

\* C7: every grid of size >= 2 obtained from a constructor or from scalar
\* multiply/divide has a step different from 0.
C7_StepNonZero ==
    \A g \in GridsOfState : g.size >= 2 => ~Eq(g.delta, Z(0))

---------------------------------------------------------------------------
(* C8 *)

---------------------------------------------------------------------------
(* C9 *)

---------------------------------------------------------------------------
(* C10 *)

\* two non-empty grids whose value ranges share no point
NoOverlap(g, h) ==
    /\ g.size >= 1
    /\ h.size >= 1
    /\ Lt(Last(g), h.origin) \/ Lt(Last(h), g.origin)

\* C10: stack throws mismatched_grids when the two grids have no overlapping
\* wavelength range, even with identical spacing and phase.
C10_StackThrowsWithoutOverlap ==
    (/\ pc = "done"
     /\ out.op = "stack"
     /\ PhaseMatching(out.pre.grid, b.grid)
     /\ NoOverlap(out.pre.grid, b.grid)) =>
        /\ out.kind = "throw"
        /\ out.what = "mismatched_grids"

---------------------------------------------------------------------------
(* C11 *)

---------------------------------------------------------------------------
(* C12 *)

---------------------------------------------------------------------------
(* C13 *)

\* C13: a weight function built from any filters and any aperture scale,
\* D = 0 included, returns exactly 0 at altitude 0.
C13_ZeroAtZeroAltitude ==
    (pc = "done" /\ out.op = "weight" /\ out.altitude = Z(0)) =>
        out.result = Z(0)

---------------------------------------------------------------------------
(* C14 *)

\* C14: at altitude +infinity the weight function returns +infinity: the
\* altitude maps to the last knot, z = 1 and spline coordinate N-1, and the
\* finite positive knot value there is multiplied by h^(5/6).
C14_InfiniteAtInfiniteAltitude ==
    (/\ pc = "done"
     /\ out.op = "weight"
     /\ out.altitude = PInf
     /\ Lt(Z(0), values_[Size(values_) - 1])) =>
        /\ out.z = Z(Size(values_) - 1)
        /\ out.result = PInf

---------------------------------------------------------------------------
(* C15 *)

\* C15: the integrand of the 1-D weight function returns exactly 0 at u = 0
\* and at u = +infinity, for every spectral filter, every aperture filter and
\* every scale factor x.
C15_IntegrandZeroAtEnds ==
    (pc = "done" /\ out.op \in {"spectrum_fcnt", "fun"}
                 /\ out.u \in {Z(0), PInf}) =>
        out.result = Z(0)

---------------------------------------------------------------------------
(* C16 *)

\* the padded size P = max(S, R) of the filter held in a
PaddedSize == IF b.grid.size < out.size THEN out.size ELSE b.grid.size

\* the carrier lies within the range of the response grid
CarrierInRange == Le(b.grid.origin, out.carrier) /\ Le(out.carrier, Last(b.grid))

\* the filter has floor(P/2)+1 samples on the grid 0, 1/(g.delta*P), ..., and
\* the last sample is 0
TransformShape ==
    LET n == PaddedSize \div 2 + 1
    IN  /\ a.grid = uniform_grid(Z(0), Div(Z(1), Mul(b.grid.delta, Z(PaddedSize))), n)
        /\ DOMAIN a.real.values = 0..(n - 1)
        /\ DOMAIN a.real.d2 = 0..(n - 1)
        /\ DOMAIN a.imag.values = 0..(n - 1)
        /\ DOMAIN a.imag.d2 = 0..(n - 1)
        /\ a.real.values[n - 1] = Z(0)
        /\ a.imag.values[n - 1] = Z(0)

---------------------------------------------------------------------------
(* C17 *)

\* the filter a is the filter p with grid and splines multiplied by l and
\* carrier and equiv_lambda divided by l, sizes unchanged
RescaledBy(p, l) ==
    /\ a.grid.origin = Mul(p.grid.origin, l)
    /\ a.grid.delta = Mul(p.grid.delta, l)
    /\ a.grid.size = p.grid.size
    /\ a.carrier = Div(p.carrier, l)
    /\ a.equiv_lambda = Div(p.equiv_lambda, l)
    /\ \A s \in {"real", "imag"} :
          /\ DOMAIN a[s].values = DOMAIN p[s].values
          /\ DOMAIN a[s].d2 = DOMAIN p[s].d2
          /\ \A i \in DOMAIN p[s].values :
                a[s].values[i] = Mul(p[s].values[i], l)
          /\ \A i \in DOMAIN p[s].d2 : a[s].d2[i] = Mul(p[s].d2[i], l)

\* C17: normalize(), with lambda0 = equiv_lambda before the call, multiplies
\* the grid (origin and step) and both splines (knot values and second
\* derivatives of real and imag) by lambda0 and divides the carrier and
\* equiv_lambda by lambda0, so that equiv_lambda = 1 afterwards; the grid size
\* and the spline lengths are unchanged.
C17_NormalizeRescalesByEquivLambda ==
    pc = "normalized" =>
        /\ RescaledBy(out.pre, out.pre.equiv_lambda)
        /\ a.equiv_lambda = Z(1)

\* C17 (amended): the same, for a filter whose equiv_lambda is finite and
\* not 0 before the call.
C17_NormalizeRescalesByFiniteEquivLambda ==
    (/\ pc = "normalized"
     /\ IsFinite(out.pre.equiv_lambda)
     /\ out.pre.equiv_lambda # Z(0)) =>
        /\ RescaledBy(out.pre, out.pre.equiv_lambda)
        /\ a.equiv_lambda = Z(1)

\* a filter with non-zero knot values and second derivatives, rescaled by
\* an equiv_lambda other than 1
C17_Witness ==
    /\ pc = "normalized"
    /\ IsFinite(out.pre.equiv_lambda)
    /\ out.pre.equiv_lambda \notin {Z(0), Z(1)}
    /\ PositiveStep(b.grid)
    /\ CarrierInRange
    /\ a.grid.size = 2
    /\ out.pre.real.values[0] # Z(0)
    /\ out.pre.real.d2[0] # Z(0)
    /\ a.real.d2[0] # out.pre.real.d2[0]
    /\ a.carrier # out.pre.carrier

---------------------------------------------------------------------------
(* C18 *)

\* C18: after normalize() on a Poly filter, its grid origin and its carrier
\* are both strictly positive and finite.
C18_OriginAndCarrierPositive ==
    (pc = "normalized" /\ PositiveStep(b.grid)) =>
        /\ Lt(Z(0), a.grid.origin) /\ IsFinite(a.grid.origin)
        /\ Lt(Z(0), a.carrier) /\ IsFinite(a.carrier)

\* C18 (amended): after normalize() on a Poly filter built from a response
\* with positive wavelengths and whose equiv_lambda was finite and positive,
\* the grid origin is exactly 0, and the grid step and the carrier are
\* strictly positive and finite.
C18_OriginZeroCarrierPositive ==
    (/\ pc = "normalized"
     /\ PositiveStep(b.grid)
     /\ Lt(Z(0), b.grid.origin)
     /\ IsFinite(out.pre.equiv_lambda)
     /\ Lt(Z(0), out.pre.equiv_lambda)) =>
        /\ a.grid.origin = Z(0)
        /\ Lt(Z(0), a.grid.delta) /\ IsFinite(a.grid.delta)
        /\ Lt(Z(0), a.carrier) /\ IsFinite(a.carrier)

\* a normalized filter whose carrier is the first wavelength of the response
C18_Witness ==
    /\ pc = "normalized"
    /\ PositiveStep(b.grid)
    /\ Lt(Z(0), b.grid.origin)
    /\ IsFinite(out.pre.equiv_lambda)
    /\ Lt(Z(0), out.pre.equiv_lambda)
    /\ out.carrier = b.grid.origin
    /\ a.carrier = Div(b.grid.origin, out.pre.equiv_lambda)
    /\ a.grid.size >= 2

---------------------------------------------------------------------------
(* C19 *)

\* the knot values are a + b*i
IsAffine(values) ==
    \A i \in DOMAIN values :
        values[i] = Add(values[0], Mul(Sub(values[1], values[0]), Z(i)))

\* x is the midpoint i + 1/2 of two knots
IsMidpoint(x) == IsFinite(x) /\ x[2] = 2

\* C19: for an affine sequence y_i = a + b*i of length N >= 2 the spline built
\* with the default boundary (second derivative 0 at both ends) has all second
\* derivatives 0 and evaluates to a + b*(i + 0.5) at every midpoint i + 0.5,
\* 0 <= i <= N-2.
C19_AffineReproduced ==
    (/\ pc \in {"spline", "done"}
     /\ out.boundary = second_order_boundary(Z(0), Z(0))
     /\ IsAffine(values_)) =>
        /\ \A i \in DOMAIN d2_ : d2_[i] = Z(0)
        /\ (pc = "done" /\ IsMidpoint(out.x)) =>
              out.result = Add(values_[0],
                               Mul(Sub(values_[1], values_[0]), out.x))

\* the last midpoint of a sloping line through three or more knots
C19_Witness ==
    /\ pc = "done"
    /\ out.boundary = second_order_boundary(Z(0), Z(0))
    /\ IsAffine(values_)
    /\ Size(values_) >= 3
    /\ values_[1] # values_[0]
    /\ out.x = Q(2 * Size(values_) - 3, 2)

---------------------------------------------------------------------------
(* C20 *)

\* C20: for y_i = i^2 of any length N >= 2 with second_order_boundary(2, 2)
\* the sweep yields second derivative 2 at every knot and the spline
\* evaluates to (i + 0.5)^2 at every midpoint i + 0.5, 0 <= i <= N-2.
C20_SquaresReproduced ==
    (/\ pc \in {"spline", "done"}
     /\ out.boundary = second_order_boundary(Z(2), Z(2))
     /\ values_ = Squares(Size(values_))) =>
        /\ \A i \in DOMAIN d2_ : d2_[i] = Z(2)
        /\ (pc = "done" /\ IsMidpoint(out.x)) =>
              out.result = Mul(out.x, out.x)

\* the last midpoint of the squares on three or more knots
C20_Witness ==
    /\ pc = "done"
    /\ out.boundary = second_order_boundary(Z(2), Z(2))
    /\ values_ = Squares(Size(values_))
    /\ Size(values_) >= 3
    /\ out.x = Q(2 * Size(values_) - 3, 2)
    /\ out.result = Mul(out.x, out.x)

---------------------------------------------------------------------------
(* C21 *)

\* C21: every FFT plan is allocated in the constructor of the wrapper that
\* owns it, no other wrapper ever holds it, it is allocated exactly as long as
\* its owner is alive, it has been destroyed exactly once when its owner has
\* been destroyed, and it is never executed after it has been destroyed.
C21_PlanOwnedAndFreedOnce ==
    pc \in {"plans", "aborted"} =>
        \A p \in PlanIds :
            /\ b[p].state # "none" =>
                  /\ b[p].by = "constructor"
                  /\ \A w \in WrapperIds : a[w].plan = p <=> w = b[p].owner
            /\ b[p].state = "allocated" =>
                  a[b[p].owner].state = "alive" /\ b[p].destroyed = 0
            /\ b[p].state = "destroyed" =>
                  a[b[p].owner].state = "destroyed" /\ b[p].destroyed = 1
            /\ ~b[p].executed_destroyed

\* a grid has executed its plan, has been destroyed and freed the plan, while
\* another wrapper built by make_fft has run and freed its own
C21_Witness ==
    /\ pc = "plans"
    /\ out.op = "destroy"
    /\ out.plan # NullPlan
    /\ b[out.plan].state = "destroyed"
    /\ b[out.plan].executed > 0
    /\ \E p \in PlanIds \ {out.plan} :
          b[p].state = "destroyed" /\ b[p].executed = 1

---------------------------------------------------------------------------
(* C22 *)

\* C22: a command-line program returns exit code 0 when it completes and
\* exit code 1, after printing the message, on every failure: a command line
\* that does not parse and also a failure raised by the core while the
\* response files are loaded and stacked.
C22_ExitCodeOneOnEveryFailure ==
    out.op = "main" =>
        IF out.failure = "none"
        THEN out.status.how = "return" /\ out.status.code = 0
        ELSE /\ out.status.how = "return"
             /\ out.status.code = 1
             /\ out.status.printed = out.failure

---------------------------------------------------------------------------
(* C27 *)

\* every file of the list loads, and the grids are pairwise phase-matching
PairwiseMatching(files) ==
    \A i, j \in 1..Len(files) :
        /\ make_from_file(files[i]).kind = "ok"
        /\ make_from_file(files[j]).kind = "ok"
        /\ PhaseMatching(make_from_file(files[i]).self.grid,
                         make_from_file(files[j]).self.grid)

\* the symmetric fold: the accumulator is stacked onto, acc.stack(c), where
\* stack_from_files does c.stack(acc)
RECURSIVE AccumulateOntoAcc(_, _, _)
AccumulateOntoAcc(files, i, acc) ==
    IF i > Len(files) THEN {acc}
    ELSE LET c == make_from_file(files[i])
         IN  IF c.kind = "throw" THEN {c}
             ELSE IF acc.kind = "none" THEN AccumulateOntoAcc(files, i + 1, c)
             ELSE UNION {
                    IF r.kind = "ok"
                    THEN AccumulateOntoAcc(files, i + 1,
                                           [kind |-> "ok", self |-> r.self])
                    ELSE IF r.kind = "throw"
                    THEN {[kind |-> "throw", what |-> r.what]}
                    ELSE {[kind |-> r.kind]} :
                    r \in stack(acc.self, c.self) }

\* the range of a grid: its first and last value, nothing for an empty grid
GridRange(g) == IF g.size = 0 THEN <<>> ELSE <<g.origin, Last(g)>>

\* the ranges nest asymmetrically: a later file lies inside an earlier one
\* and shares exactly one of its two ends
NestAsymmetrically(files) ==
    \E i, j \in 1..Len(files) :
        LET g == make_from_file(files[i]).self.grid
            h == make_from_file(files[j]).self.grid
        IN  /\ i < j
            /\ g.size > 0 /\ h.size > 0
            /\ Le(g.origin, h.origin) /\ Le(Last(h), Last(g))
            /\ (g.origin = h.origin) # (Last(g) = Last(h))

\* C27 as stated: among the lists stack_from_files is called with there are
\* three or more responses with pairwise phase-matching grids for which its
\* fold, c.stack(acc), returns another grid range than the fold acc.stack(c).
C27_FoldOrderChangesRange ==
    out.op = "stack_from_files" =>
        \E files \in FileLists :
            /\ Len(files) >= 3
            /\ PairwiseMatching(files)
            /\ \E r \in stack_from_files(files),
                  s \in AccumulateOntoAcc(files, 1, None) :
                  /\ r.kind = "ok"
                  /\ s.kind = "ok"
                  /\ GridRange(r.self.grid) # GridRange(s.self.grid)

\* C27, amended: for three or more responses with pairwise phase-matching
\* grids the fold of stack_from_files returns a response, and the fold
\* acc.stack(c) returns the same grid and the same values.
C27_FoldOrderKeepsRange ==
    (out.op = "stack_from_files" /\ Len(b) >= 3 /\ PairwiseMatching(b)) =>
        /\ a.kind = "ok"
        /\ \A s \in AccumulateOntoAcc(b, 1, None) :
              /\ s.kind = "ok"
              /\ s.self.grid = a.self.grid
              /\ s.self.data = a.self.data

\* three files whose ranges nest asymmetrically have been stacked into a
\* non-empty response
C27_Witness ==
    /\ pc = "done"
    /\ out.op = "stack_from_files"
    /\ Len(b) = 3
    /\ PairwiseMatching(b)
    /\ NestAsymmetrically(b)
    /\ make_from_file(b[1]).self.grid.size > make_from_file(b[3]).self.grid.size
    /\ a.kind = "ok"
    /\ a.self.grid.size = 2

---------------------------------------------------------------------------
(* C30 *)

\* C30: stack_from_files called with no file name returns no response, it
\* fails with an exception; called with one file name it returns what
\* make_from_file returns for that file, nothing is stacked.
C30_EmptyFailsSingleLoads ==
    out.op = "stack_from_files" =>
        /\ Len(b) = 0 => a.kind = "throw"
        /\ Len(b) = 1 => a = make_from_file(b[1])

\* one file of four rows has been passed and its response returned
C30_Witness ==
    /\ pc = "done"
    /\ out.op = "stack_from_files"
    /\ Len(b) = 1
    /\ a.kind = "ok"
    /\ a.self.grid = uniform_grid(Z(0), Z(1), 4)
    /\ a.self.data = DataA(4)

---------------------------------------------------------------------------
(* C23 *)

\* C23: called with altitude 0 a grid of apertures returns a tensor of its
\* shape (N_x, N_y) whose elements are all 0, and neither evaluates the kernel
\* nor executes its plan.
C23_ZeroTensorAtZeroAltitude ==
    (pc = "plans" /\ out.op = "call" /\ out.altitude = Z(0)) =>
        /\ DOMAIN out.result =
              (0..(a[out.wrapper].shape[1] - 1))
                  \X (0..(a[out.wrapper].shape[2] - 1))
        /\ \A ij \in DOMAIN out.result : out.result[ij] = Z(0)
        /\ out.kernel_calls = 0
        /\ ~out.executed

\* a grid of 2 x 3 apertures whose plan has been executed before is called
\* with altitude 0
C23_Witness ==
    /\ pc = "plans"
    /\ out.op = "call"
    /\ out.altitude = Z(0)
    /\ a[out.wrapper].shape = <<2, 3>>
    /\ out.plan # NullPlan
    /\ b[out.plan].executed > 0

---------------------------------------------------------------------------
(* C24 *)

\* C24 as stated: for Point, Circular, Annular(eps) and CrossAnnular(alpha,
\* eps1, eps2) and every real u, 0 <= A(u) <= 1.
C24_ApertureBetweenZeroAndOne ==
    (pc = "done" /\ out.op = "aperture") =>
        Le(Z(0), out.result) /\ Le(out.result, Z(1))

\* C24, amended: 0 <= A(u) <= 1 for Point, Circular and Annular(eps); for
\* CrossAnnular -1 <= A(u) <= 1, and 0 <= A(u) when alpha = 1 and eps1 = eps2.
C24_ApertureBetweenZeroAndOneButCross ==
    (pc = "done" /\ out.op = "aperture") =>
        /\ Le(out.result, Z(1))
        /\ IF out.af = "cross_annular"
           THEN /\ Le(Z(-1), out.result)
                /\ (out.ratio = Z(1)
                      /\ out.obscuration_first = out.obscuration_second)
                   => Le(Z(0), out.result)
           ELSE Le(Z(0), out.result)

\* an annular aperture with obscuration 1/2 probed where the Bessel quotient
\* is negative
C24_Witness ==
    /\ pc = "done"
    /\ out.op = "aperture"
    /\ out.af = "annular"
    /\ out.obscuration = Q(1, 2)
    /\ out.piu = Z(4)
    /\ Lt(Z(0), out.result)

---------------------------------------------------------------------------
(* C25 *)

\* C25: evaluating a spline of N >= 2 knots at any x of [0, N-1], x = N-1
\* included, reads knot values and second derivatives at indices of [0, N-1]
\* only.
C25_ReadsWithinBounds ==
    (pc = "done" /\ out.op = "eval") =>
        /\ out.idx \in 0..(Size(values_) - 1)
        /\ ~ReadsOutOfBounds(values_, out.idx)

---------------------------------------------------------------------------
(* C26 *)

\* C26: when the weight function is precomputed, the integrand at 0 < u < 1
\* is computed with the regularised member of the spectral filter,
\* u^(4/3) * SF.regular(u^2) * AF(x*u), and only at u >= 1 with
\* u^(-8/3) * SF(u^2) * AF(x*u).
C26_RegularisedBelowOne ==
    (pc = "done" /\ out.op \in {"spectrum_fcnt", "fun"} /\ IsFinite(out.u)) =>
        /\ (Lt(Z(0), out.u) /\ Lt(out.u, Z(1))) => out.branch = "regular"
        /\ Le(Z(1), out.u) => out.branch = "operator()"

---------------------------------------------------------------------------
(* C28 *)

\* C28: a Poly filter is built from a response of length R >= 1, a requested
\* size S and a carrier within the range of the response grid; with
\* P = max(S, R) and i_c = to_index(carrier), 0 <= i_c < R, the zero-padded,
\* twice-tiled sequence has 2*P elements, the slice [i_c, i_c + P) lies inside
\* it and has exactly P elements, and the carrier stored in the filter is the
\* grid value at index i_c.
C28_SliceInsideTiledSequence ==
    (pc \in {"poly", "aborted"} /\ out.op = "poly" /\ PositiveStep(b.grid)
        /\ b.grid.size >= 1 /\ CarrierInRange) =>
        \A i_c \in to_index(b.grid, out.carrier) :
            LET tiled == PadTile(b.data, b.grid.size, PaddedSize)
            IN  /\ 0 <= i_c /\ i_c < b.grid.size
                /\ Size(tiled) = 2 * PaddedSize
                /\ i_c + PaddedSize <= Size(tiled)
                /\ DOMAIN View(tiled, i_c, i_c + PaddedSize)
                      = 0..(PaddedSize - 1)
                /\ a.kind = "ok" => a.carrier = value(b.grid, i_c)

\* a response of 2 values and requested size 3 with the carrier between the
\* two grid values: the slice starts at index 0; and with the carrier at the
\* last value it starts at index 1
C28_Witness ==
    /\ pc = "poly"
    /\ out.op = "poly"
    /\ PositiveStep(b.grid)
    /\ CarrierInRange
    /\ b.grid.size = 2
    /\ out.size = 3
    /\ Lt(b.grid.origin, out.carrier)
    /\ Lt(out.carrier, Last(b.grid))
    /\ a.carrier = b.grid.origin

---------------------------------------------------------------------------
(* C29 *)

\* C29: match(a, b) is true exactly when a and b have the same step and
\* their origins differ by an integer multiple of it, origins of opposite
\* signs included, so that two grids with the same step and a common grid
\* point can always be intersected.
C29_MatchIffCongruent ==
    (pc = "done" /\ out.op = "intersect"
        /\ PositiveStep(a.grid) /\ PositiveStep(b.grid)) =>
        /\ match(a.grid, b.grid) <=> Congruent(a.grid, b.grid)
        /\ Congruent(a.grid, b.grid) => out.res.kind = "ok"

=============================================================================
